---------------------------- MODULE Spec2Model ----------------------------
(***************************************************************************)
(* A model of Lib/special/special.py: the general_function adapter and the *)
(* catalog of validating wrappers around the specfun / cephes routines.    *)
(*                                                                         *)
(* Every wrapper is a pure function of its arguments; a call is one atomic *)
(* step whose outcome (exception raised, external routines reached, value  *)
(* returned, warning printed) is recorded in the state.                    *)
(***************************************************************************)
EXTENDS Integers, Sequences, FiniteSets, TLC

VARIABLES
    op,      \* name of the last function called ("none" before any call)
    args,    \* the arguments of that call
    exc,     \* "none", or the class of the exception the call raised
    msg,     \* the message of that exception
    calls,   \* the external routines the call reached, in order
    warned,  \* whether the call printed the truncation warning
    value,   \* the value the call returned
    gfunc    \* the general_function instance constructed last

vars == <<op, args, exc, msg, calls, warned, value, gfunc>>

-----------------------------------------------------------------------------
(* Bounds of the model and constants of the program.                       *)

\* largest derivative order the derivative wrappers are called with
MaxN == 3
\* largest |v| the derivative wrappers are called with
MaxV == 1
\* largest size of a dimension of an array the adapter is called with
MaxDim == 4

\* jnjnp_zeros: "Number must be integer <=1400."
NtMax == 1400
\* mathieu_*_coef: "if km > 251"
KmMax == 251
\* pro_cv_seq / obl_cv_seq: "if (n-m > 199)"
DiffMax == 199

-----------------------------------------------------------------------------
(* Python numbers.  A number is kept in halves (h = 2 * value) so that the *)
(* non-integers x.5 exist; tag is its Python type.  An array keeps its     *)
(* elements, in halves, in items.                                          *)

I(n)     == [tag |-> "int",     h |-> 2 * n, items |-> <<>>]
Lg(n)    == [tag |-> "long",    h |-> 2 * n, items |-> <<>>]
Fl(h)    == [tag |-> "float",   h |-> h,     items |-> <<>>]
Cx(h)    == [tag |-> "complex", h |-> h,     items |-> <<>>]
Arr(its) == [tag |-> "array",   h |-> 0,     items |-> its]

isscalar(x)  == x.tag # "array"
iscomplex(x) == x.tag = "complex"

\* truth value of (floor(x) != x): for an array, true when any element differs
FloorNe(x) ==
    IF isscalar(x) THEN x.h % 2 # 0
    ELSE \E i \in 1..Len(x.items) : x.items[i] % 2 # 0

\* truth value of (x <= 0), (x < 0), (x > c)
Le0(x) ==
    IF isscalar(x) THEN x.h <= 0
    ELSE \E i \in 1..Len(x.items) : x.items[i] <= 0
Lt0(x) ==
    IF isscalar(x) THEN x.h < 0
    ELSE \E i \in 1..Len(x.items) : x.items[i] < 0
Gt(x, c) ==
    IF isscalar(x) THEN x.h > 2 * c
    ELSE \E i \in 1..Len(x.items) : x.items[i] > 2 * c

\* int(x): truncation toward zero
Trunc2(h) == IF h >= 0 THEN h \div 2 ELSE -((-h) \div 2)
int(x) == I(Trunc2(x.h))

-----------------------------------------------------------------------------
(* Outcomes of a call.                                                     *)

\* the orders, in halves, at which a derivative wrapper may evaluate its base
Orders == (0 - 2 * (MaxV + MaxN + 1))..(2 * (MaxV + MaxN + 1))
ZeroCoef == [k \in Orders |-> 0]

NoValue ==
    [kind |-> "none", parts |-> <<>>, sliced |-> FALSE, take |-> 0,
     shape |-> <<>>, data |-> <<>>, typecode |-> "",
     coef |-> ZeroCoef, exp2 |-> 0, ninv |-> 0, depth |-> 0]

\* a value built from the results of external calls: parts[i] = <<c, k>> is
\* component k of the result of call number c (k = -1: the whole result)
ExtValue(parts) == [NoValue EXCEPT !.kind = "ext", !.parts = parts]
SlicedValue(parts, n) ==
    [NoValue EXCEPT !.kind = "ext", !.parts = parts, !.sliced = TRUE, !.take = n]

Raise(e, m) ==
    [exc |-> e, msg |-> m, calls |-> <<>>, warned |-> FALSE, value |-> NoValue]

\* names bound at module level by the imports
ImportedModules ==
    {"cephes", "Numeric", "types", "fastumath", "scipy_base", "specfun"}

Ext(mod, rt, a) == [args |-> a, module |-> mod, routine |-> rt]

RECURSIVE FirstUnbound(_, _)
FirstUnbound(reqs, i) ==
    IF i > Len(reqs) THEN 0
    ELSE IF reqs[i].module \notin ImportedModules THEN i
    ELSE FirstUnbound(reqs, i + 1)

\* evaluate the external calls reqs in order and return v; looking up a
\* module name no import binds raises NameError at that call
Delegate(reqs, v, w) ==
    LET k == FirstUnbound(reqs, 1) IN
    IF k = 0
    THEN [exc |-> "none", msg |-> "", calls |-> reqs, warned |-> w, value |-> v]
    ELSE [exc |-> "NameError", msg |-> reqs[k].module,
          calls |-> SubSeq(reqs, 1, k - 1), warned |-> w, value |-> NoValue]

-----------------------------------------------------------------------------
(* The zero-finding wrappers.                                              *)

jnjnp_zeros(nt) ==
    IF ~isscalar(nt) \/ FloorNe(nt) \/ Gt(nt, NtMax)
    THEN Raise("ValueError", "Number must be integer <=1400.")
    ELSE Delegate(<<Ext("specfunc", "jdzo", <<int(nt)>>)>>,
                  ExtValue(<<<<1, 0>>, <<1, 1>>, <<1, 2>>, <<1, 3>>>>), FALSE)

\* jnyn_zeros with the range test ahead of the integrality test
jnyn_zeros_reordered(n, nt) ==
    IF ~(isscalar(nt) /\ isscalar(n))
    THEN Raise("ValueError", "Arguments must be scalars.")
    ELSE IF Le0(nt)
    THEN Raise("ValueError", "nt > 0")
    ELSE IF FloorNe(n) \/ FloorNe(nt)
    THEN Raise("ValueError", "Arguments must be integers.")
    ELSE Delegate(<<Ext("specfun", "jyzo", <<n, nt>>)>>, ExtValue(<<<<1, -1>>>>), FALSE)

jnyn_zeros(n, nt) ==
    IF ~(isscalar(nt) /\ isscalar(n))
    THEN Raise("ValueError", "Arguments must be scalars.")
    ELSE IF FloorNe(n) \/ FloorNe(nt)
    THEN Raise("ValueError", "Arguments must be integers.")
    ELSE IF Le0(nt)
    THEN Raise("ValueError", "nt > 0")
    ELSE Delegate(<<Ext("specfun", "jyzo", <<n, nt>>)>>, ExtValue(<<<<1, -1>>>>), FALSE)

\* r[k] of the tuple jnyn_zeros returns
Project(r, k) ==
    IF r.exc # "none" THEN r ELSE [r EXCEPT !.value = ExtValue(<<<<1, k>>>>)]

jn_zeros(n, nt)  == Project(jnyn_zeros(n, nt), 0)
jnp_zeros(n, nt) == Project(jnyn_zeros(n, nt), 1)
yn_zeros(n, nt)  == Project(jnyn_zeros(n, nt), 2)
ynp_zeros(n, nt) == Project(jnyn_zeros(n, nt), 3)

\* kc = (complex != 1)
Kc(complex) == IF isscalar(complex) /\ complex.h = 2 THEN I(0) ELSE I(1)

y0_zeros(nt, complex) ==
    IF ~isscalar(nt) \/ FloorNe(nt) \/ Le0(nt)
    THEN Raise("ValueError", "Arguments must be scalar positive integer.")
    ELSE Delegate(<<Ext("specfun", "cyzo", <<nt, I(0), Kc(complex)>>)>>,
                  ExtValue(<<<<1, -1>>>>), FALSE)

y1_zeros(nt, complex) ==
    IF ~isscalar(nt) \/ FloorNe(nt) \/ Le0(nt)
    THEN Raise("ValueError", "Arguments must be scalar positive integer.")
    ELSE Delegate(<<Ext("specfun", "cyzo", <<nt, I(1), Kc(complex)>>)>>,
                  ExtValue(<<<<1, -1>>>>), FALSE)

y1p_zeros(nt, complex) ==
    IF ~isscalar(nt) \/ FloorNe(nt) \/ Le0(nt)
    THEN Raise("ValueError", "Arguments must be scalar positive integer.")
    ELSE Delegate(<<Ext("specfun", "cyzo", <<nt, I(2), Kc(complex)>>)>>,
                  ExtValue(<<<<1, -1>>>>), FALSE)

\* erf_zeros without its scalar test
erf_zeros_noscalar(nt) ==
    IF FloorNe(nt) \/ Le0(nt)
    THEN Raise("ValueError", "Argument must be positive scalar integer.")
    ELSE Delegate(<<Ext("specfun", "cerzo", <<nt>>)>>, ExtValue(<<<<1, -1>>>>), FALSE)

erf_zeros(nt) ==
    IF FloorNe(nt) \/ Le0(nt) \/ ~isscalar(nt)
    THEN Raise("ValueError", "Argument must be positive scalar integer.")
    ELSE Delegate(<<Ext("specfun", "cerzo", <<nt>>)>>, ExtValue(<<<<1, -1>>>>), FALSE)

fresnelc_zeros(nt) ==
    IF FloorNe(nt) \/ Le0(nt) \/ ~isscalar(nt)
    THEN Raise("ValueError", "Argument must be positive scalar integer.")
    ELSE Delegate(<<Ext("specfun", "fcszo", <<I(1), nt>>)>>, ExtValue(<<<<1, -1>>>>), FALSE)

fresnels_zeros(nt) ==
    IF FloorNe(nt) \/ Le0(nt) \/ ~isscalar(nt)
    THEN Raise("ValueError", "Argument must be positive scalar integer.")
    ELSE Delegate(<<Ext("specfun", "fcszo", <<I(2), nt>>)>>, ExtValue(<<<<1, -1>>>>), FALSE)

fresnel_zeros(nt) ==
    IF FloorNe(nt) \/ Le0(nt) \/ ~isscalar(nt)
    THEN Raise("ValueError", "Argument must be positive scalar integer.")
    ELSE Delegate(<<Ext("specfun", "fcszo", <<I(2), nt>>),
                    Ext("specfun", "fcszo", <<I(1), nt>>)>>,
                  ExtValue(<<<<1, -1>>, <<2, -1>>>>), FALSE)

ai_zeros(nt) ==
    IF ~isscalar(nt) \/ FloorNe(nt) \/ Le0(nt)
    THEN Raise("ValueError", "nt must be a positive integer scalar.")
    ELSE Delegate(<<Ext("specfun", "airyzo", <<nt, I(1)>>)>>, ExtValue(<<<<1, -1>>>>), FALSE)

bi_zeros(nt) ==
    IF ~isscalar(nt) \/ FloorNe(nt) \/ Le0(nt)
    THEN Raise("ValueError", "nt must be a positive integer scalar.")
    ELSE Delegate(<<Ext("specfun", "airyzo", <<nt, I(2)>>)>>, ExtValue(<<<<1, -1>>>>), FALSE)

\* ber_zeros .. keip_zeros: the wrapper of klvnzo(nt, kd)
KelvinZeros(nt, kd) ==
    IF ~isscalar(nt) \/ FloorNe(nt) \/ Le0(nt)
    THEN Raise("ValueError", "nt must be positive integer scalar.")
    ELSE Delegate(<<Ext("specfun", "klvnzo", <<nt, I(kd)>>)>>, ExtValue(<<<<1, -1>>>>), FALSE)

ber_zeros(nt)  == KelvinZeros(nt, 1)
bei_zeros(nt)  == KelvinZeros(nt, 2)
ker_zeros(nt)  == KelvinZeros(nt, 3)
kei_zeros(nt)  == KelvinZeros(nt, 4)
berp_zeros(nt) == KelvinZeros(nt, 5)
beip_zeros(nt) == KelvinZeros(nt, 6)
kerp_zeros(nt) == KelvinZeros(nt, 7)
keip_zeros(nt) == KelvinZeros(nt, 8)

kelvin_zeros(nt) ==
    IF ~isscalar(nt) \/ FloorNe(nt) \/ Le0(nt)
    THEN Raise("ValueError", "nt must be positive integer scalar.")
    ELSE Delegate([kd \in 1..8 |-> Ext("specfun", "klvnzo", <<nt, I(kd)>>)],
                  ExtValue([kd \in 1..8 |-> <<kd, -1>>]), FALSE)

-----------------------------------------------------------------------------
(* Legendre functions, Bernoulli and Euler numbers, spheroidal sequences.  *)

lpmn(m, n, z) ==
    IF ~isscalar(m) \/ Lt0(m)
    THEN Raise("ValueError", "m must be a non-negative integer.")
    ELSE IF ~isscalar(n) \/ Lt0(n)
    THEN Raise("ValueError", "n must be a non-negative integer.")
    ELSE IF ~isscalar(z)
    THEN Raise("ValueError", "z must be scalar.")
    ELSE IF iscomplex(z)
    THEN Delegate(<<Ext("specfun", "clpmn", <<m, n, z>>)>>,
                  ExtValue(<<<<1, 0>>, <<1, 1>>>>), FALSE)
    ELSE Delegate(<<Ext("specfun", "lpmn", <<m, n, z>>)>>,
                  ExtValue(<<<<1, 0>>, <<1, 1>>>>), FALSE)

lqmn(m, n, z) ==
    IF ~isscalar(m) \/ Lt0(m)
    THEN Raise("ValueError", "m must be a non-negative integer.")
    ELSE IF ~isscalar(n) \/ Lt0(n)
    THEN Raise("ValueError", "n must be a non-negative integer.")
    ELSE IF ~isscalar(z)
    THEN Raise("ValueError", "z must be scalar.")
    ELSE IF iscomplex(z)
    THEN Delegate(<<Ext("specfun", "clqmn", <<m, n, z>>)>>,
                  ExtValue(<<<<1, 0>>, <<1, 1>>>>), FALSE)
    ELSE Delegate(<<Ext("specfun", "lqmn", <<m, n, z>>)>>,
                  ExtValue(<<<<1, 0>>, <<1, 1>>>>), FALSE)

bernoulli(n) ==
    IF ~isscalar(n) \/ Lt0(n)
    THEN Raise("ValueError", "n must be a non-negative integer.")
    ELSE Delegate(<<Ext("specfun", "bernob", <<int(n)>>)>>, ExtValue(<<<<1, -1>>>>), FALSE)

euler(n) ==
    IF ~isscalar(n) \/ Lt0(n)
    THEN Raise("ValueError", "n must be a non-negative integer.")
    ELSE Delegate(<<Ext("specfun", "eulerb", <<int(n)>>)>>, ExtValue(<<<<1, -1>>>>), FALSE)

lpn(n, z) ==
    IF ~(isscalar(n) /\ isscalar(z))
    THEN Raise("ValueError", "arguments must be scalars.")
    ELSE IF FloorNe(n) \/ Lt0(n)
    THEN Raise("ValueError", "n must be a non-negative integer.")
    ELSE IF iscomplex(z)
    THEN Delegate(<<Ext("specfun", "clpn", <<n, z>>)>>,
                  ExtValue(<<<<1, 0>>, <<1, 1>>>>), FALSE)
    ELSE Delegate(<<Ext("specfun", "lpn", <<n, z>>)>>,
                  ExtValue(<<<<1, 0>>, <<1, 1>>>>), FALSE)

lqn(n, z) ==
    IF ~(isscalar(n) /\ isscalar(z))
    THEN Raise("ValueError", "arguments must be scalars.")
    ELSE IF FloorNe(n) \/ Lt0(n)
    THEN Raise("ValueError", "n must be a non-negative integer.")
    ELSE IF iscomplex(z)
    THEN Delegate(<<Ext("specfun", "clqn", <<n, z>>)>>,
                  ExtValue(<<<<1, 0>>, <<1, 1>>>>), FALSE)
    ELSE Delegate(<<Ext("specfun", "lqnb", <<n, z>>)>>,
                  ExtValue(<<<<1, 0>>, <<1, 1>>>>), FALSE)

\* maxL = n-m+1, for integer-valued n and m
MaxL(m, n) == (n.h - m.h) \div 2 + 1

pro_cv_seq(m, n, c) ==
    IF ~(isscalar(m) /\ isscalar(n) /\ isscalar(c))
    THEN Raise("ValueError", "Arguments must be scalars.")
    ELSE IF FloorNe(n) \/ FloorNe(m)
    THEN Raise("ValueError", "Modes must be integers.")
    ELSE IF n.h - m.h > 2 * DiffMax
    THEN Raise("ValueError", "Difference between n and m is too large.")
    ELSE Delegate(<<Ext("specfun", "segv", <<m, n, c, I(1)>>)>>,
                  SlicedValue(<<<<1, 1>>>>, MaxL(m, n)), FALSE)

obl_cv_seq(m, n, c) ==
    IF ~(isscalar(m) /\ isscalar(n) /\ isscalar(c))
    THEN Raise("ValueError", "Arguments must be scalars.")
    ELSE IF FloorNe(n) \/ FloorNe(m)
    THEN Raise("ValueError", "Modes must be integers.")
    ELSE IF n.h - m.h > 2 * DiffMax
    THEN Raise("ValueError", "Difference between n and m is too large.")
    ELSE Delegate(<<Ext("specfun", "segv", <<m, n, c, I(-1)>>)>>,
                  SlicedValue(<<<<1, 1>>>>, MaxL(m, n)), FALSE)

-----------------------------------------------------------------------------
(* Mathieu expansion coefficients.  The truncation estimate is computed in *)
(* units of 1/10000; sqrt is exact on the perfect squares the model feeds  *)
(* it.                                                                     *)

RECURSIVE SqrtFrom(_, _)
SqrtFrom(n, s) == IF (s + 1) * (s + 1) > n THEN s ELSE SqrtFrom(n, s + 1)
sqrt(n) == SqrtFrom(n, 0)

\* qm, in 1/10000, for q >= 0 an integer value
Qm4(q) ==
    LET qv == q.h \div 2
        s  == sqrt(qv)
    IN  IF qv <= 1
        THEN 75000 + 561000 * s - 1347000 * qv + 907000 * s * qv
        ELSE 170000 + 31000 * s - 1260 * qv + 37 * s * qv

\* km = int(qm + 0.5*m)
Km(m, q) == (2 * Qm4(q) + 5000 * m.h) \div 20000

\* the result of external call number c, passed on as an argument
Res(c) == [tag |-> "result", h |-> c, items |-> <<>>]

mathieu_even_coef(m, q) ==
    IF ~(isscalar(m) /\ isscalar(q))
    THEN Raise("ValueError", "m and q must be scalars.")
    ELSE IF Lt0(q)
    THEN Raise("ValueError", "q >=0")
    ELSE IF FloorNe(m) \/ Lt0(m)
    THEN Raise("ValueError", "m must be an integer >=0.")
    ELSE LET km == Km(m, q)
             mi == int(m)
             kd == IF (mi.h \div 2) % 2 # 0 THEN 2 ELSE 1
         IN  Delegate(<<Ext("cephes", "mathieu_a", <<mi, q>>),
                        Ext("specfun", "fcoef", <<I(kd), mi, q, Res(1)>>)>>,
                      SlicedValue(<<<<2, -1>>>>, km), km > KmMax)

mathieu_odd_coef(m, q) ==
    IF ~(isscalar(m) /\ isscalar(q))
    THEN Raise("ValueError", "m and q must be scalars.")
    ELSE IF Lt0(q)
    THEN Raise("ValueError", "q >=0")
    ELSE IF FloorNe(m) \/ Le0(m)
    THEN Raise("ValueError", "m must be an integer > 0")
    ELSE LET km == Km(m, q)
             mi == int(m)
             kd == IF (mi.h \div 2) % 2 # 0 THEN 3 ELSE 4
         IN  Delegate(<<Ext("cephes", "mathieu_b", <<mi, q>>),
                        Ext("specfunc", "fcoef", <<I(kd), mi, q, Res(1)>>)>>,
                      SlicedValue(<<<<2, -1>>>>, km), km > KmMax)

-----------------------------------------------------------------------------
(* The derivative wrappers.  The base function is opaque, so a value is    *)
(* the formal combination  (SUM_k coef[k] * F_k(z)) / 2^e  over the orders *)
(* k (in halves) at which the base function was evaluated.                 *)

RECURSIVE Pow2(_)
Pow2(k) == IF k = 0 THEN 1 ELSE 2 * Pow2(k - 1)

Max(a, b) == IF a >= b THEN a ELSE b

\* F_v(z)
Leaf(v) ==
    [NoValue EXCEPT !.kind = "deriv", !.coef = [k \in Orders |-> IF k = v.h THEN 1 ELSE 0],
                    !.ninv = 1]

\* the recurrence with the two terms added
HalfSum(a, b) ==
    LET e == Max(a.exp2, b.exp2) IN
    [NoValue EXCEPT !.kind = "deriv",
        !.coef = [k \in Orders |-> a.coef[k] * Pow2(e - a.exp2) + b.coef[k] * Pow2(e - b.exp2)],
        !.exp2 = e + 1,
        !.ninv = 1 + a.ninv + b.ninv,
        !.depth = 1 + Max(a.depth, b.depth)]

\* (a - b)/2.0, computed by an invocation whose two recursive calls gave a and b
HalfDiff(a, b) ==
    LET e == Max(a.exp2, b.exp2) IN
    [NoValue EXCEPT !.kind = "deriv",
        !.coef = [k \in Orders |-> a.coef[k] * Pow2(e - a.exp2) - b.coef[k] * Pow2(e - b.exp2)],
        !.exp2 = e + 1,
        !.ninv = 1 + a.ninv + b.ninv,
        !.depth = 1 + Max(a.depth, b.depth)]

\* v + k and n - 1 on Python numbers
Shift(v, k) == [v EXCEPT !.h = @ + 2 * k]

\* a test of the value of n in place of its type
IsIntegerValued(n) == n.tag # "array" /\ n.h % 2 = 0

\* isinstance(n, types.IntType)
IsIntType(n) == n.tag = "int"

RECURSIVE vp(_, _, _, _)
vp(F, v, z, n) ==
    IF ~IsIntType(n) \/ n.h < 0
    THEN Raise("ValueError", "n must be a non-negative integer.")
    ELSE IF n.h = 0
    THEN Delegate(<<Ext("cephes", F, <<v, z>>)>>, Leaf(v), FALSE)
    ELSE LET a == vp(F, Shift(v, -1), z, Shift(n, -1)) IN
         IF a.exc # "none" THEN a
         ELSE LET b == vp(F, Shift(v, 1), z, Shift(n, -1)) IN
              IF b.exc # "none" THEN [b EXCEPT !.calls = a.calls \o b.calls]
              ELSE [exc |-> "none", msg |-> "", calls |-> a.calls \o b.calls,
                    warned |-> FALSE, value |-> HalfDiff(a.value, b.value)]

jvp(v, z, n)  == vp("jv", v, z, n)
yvp(v, z, n)  == vp("yv", v, z, n)
kvp(v, z, n)  == vp("kv", v, z, n)
ivp(v, z, n)  == vp("iv", v, z, n)
h1vp(v, z, n) == vp("hankel1", v, z, n)
h2vp(v, z, n) == vp("hankel2", v, z, n)

-----------------------------------------------------------------------------
(* general_function: construction.                                         *)

None      == [ty |-> "NoneType", str |-> ""]
Str(x)    == [ty |-> "str", str |-> x]
PyInt(x)  == [ty |-> "int", str |-> x]

\* objects a caller may hand to general_function
Function(name, doc) == [ty |-> "function", name |-> name, doc |-> doc]
ClassObj(name, doc) == [ty |-> "classobj", name |-> name, doc |-> doc]
TypeObj(name, doc)  == [ty |-> "type", name |-> name, doc |-> doc]
Instance(name, doc) == [ty |-> "instance", name |-> name, doc |-> doc]
NotCallable(name)   == [ty |-> "int", name |-> name, doc |-> None]

callable(o) == o.ty \in {"function", "classobj", "type", "instance"}
IsClassType(o) == o.ty = "classobj"
IsStringType(o) == o.ty = "str"

_sph_harmonic ==
    Function("_sph_harmonic", Str("inputs of (m,n,theta,phi) returns spherical harmonic"))

\* __init__ without the test for class objects
general_function_anycallable(pyfunc, otypes, doc) ==
    IF ~callable(pyfunc)
    THEN [exc |-> "TypeError", msg |-> "Object is not a callable Python object.",
          doc |-> None, otypes |-> "", thefunc |-> ""]
    ELSE IF otypes # None /\ ~IsStringType(otypes)
    THEN [exc |-> "ValueError", msg |-> "Output types must be a string.",
          doc |-> None, otypes |-> "", thefunc |-> ""]
    ELSE [exc |-> "none", msg |-> "",
          doc |-> IF doc = None THEN pyfunc.doc ELSE doc,
          otypes |-> IF otypes = None THEN "" ELSE otypes.str,
          thefunc |-> pyfunc.name]

\* the instance __init__ builds, or the exception it raises
general_function(pyfunc, otypes, doc) ==
    IF ~callable(pyfunc) \/ IsClassType(pyfunc)
    THEN [exc |-> "TypeError", msg |-> "Object is not a callable Python object.",
          doc |-> None, otypes |-> "", thefunc |-> ""]
    ELSE IF otypes # None /\ ~IsStringType(otypes)
    THEN [exc |-> "ValueError", msg |-> "Output types must be a string.",
          doc |-> None, otypes |-> "", thefunc |-> ""]
    ELSE [exc |-> "none", msg |-> "",
          doc |-> IF doc = None THEN pyfunc.doc ELSE doc,
          otypes |-> IF otypes = None THEN "" ELSE otypes.str,
          thefunc |-> pyfunc.name]

\* sph_harm = general_function(_sph_harmonic,'D')
sph_harm == general_function(_sph_harmonic, Str("D"), None)

-----------------------------------------------------------------------------
(* general_function: the call.  An argument is a scalar or a nested        *)
(* sequence; an array is its shape and its elements in row-major order.    *)

Sc(x)    == [tag |-> "scalar", items |-> <<>>, val |-> x]
Sq(its)  == [tag |-> "seq",    items |-> its,  val |-> 0]

RECURSIVE ShapeOf(_)
ShapeOf(x) ==
    IF x.tag = "scalar" THEN <<>>
    ELSE IF Len(x.items) = 0 THEN <<0>>
    ELSE <<Len(x.items)>> \o ShapeOf(x.items[1])

RECURSIVE Flatten(_)
RECURSIVE FlattenFrom(_, _)
FlattenFrom(its, i) ==
    IF i > Len(its) THEN <<>> ELSE Flatten(its[i]) \o FlattenFrom(its, i + 1)
Flatten(x) == IF x.tag = "scalar" THEN <<x.val>> ELSE FlattenFrom(x.items, 1)

asarray(x) == [shape |-> ShapeOf(x), data |-> Flatten(x)]

\* myfunc with its comparison off by one
myfunc_ge(a, b) == IF a >= b THEN a - b ELSE a + b

\* the wrapped scalar functions: myfunc of the docstring, and a - b
myfunc(a, b) == IF a > b THEN a - b ELSE a + b
Apply(fn, xs) ==
    IF fn = "myfunc" THEN myfunc(xs[1], xs[2]) ELSE xs[1] - xs[2]

\* shape sh with leading dimensions of size 1 up to rank r
Pad(sh, r) == [d \in 1..r |-> IF d <= r - Len(sh) THEN 1 ELSE sh[d - (r - Len(sh))]]

RECURSIVE MaxRank(_, _)
MaxRank(shapes, i) ==
    IF i > Len(shapes) THEN 0 ELSE Max(Len(shapes[i]), MaxRank(shapes, i + 1))

\* the sizes other than 1 that the shapes have along dimension d
SizesAt(padded, d) == {padded[i][d] : i \in 1..Len(padded)} \ {1}

Compatible(padded, r) == \A d \in 1..r : Cardinality(SizesAt(padded, d)) <= 1

BroadcastShape(padded, r) ==
    [d \in 1..r |-> IF SizesAt(padded, d) = {} THEN 1
                    ELSE CHOOSE n \in SizesAt(padded, d) : TRUE]

RECURSIVE Product(_, _)
Product(sh, d) == IF d > Len(sh) THEN 1 ELSE sh[d] * Product(sh, d + 1)

\* the coordinate after c in row-major order: the last dimension runs fastest
RECURSIVE NextCoord(_, _, _)
NextCoord(c, shape, d) ==
    IF d = 0 THEN c
    ELSE IF c[d] + 1 < shape[d] THEN [c EXCEPT ![d] = @ + 1]
    ELSE NextCoord([c EXCEPT ![d] = 0], shape, d - 1)

\* the element of array a (shape padded to ps) at coordinate c, taking index 0
\* along the dimensions where a has size 1
RECURSIVE OffsetOf(_, _, _, _)
OffsetOf(c, ps, d, acc) ==
    IF d > Len(ps) THEN acc
    ELSE OffsetOf(c, ps, d + 1, acc * ps[d] + (IF ps[d] = 1 THEN 0 ELSE c[d]))
Select(a, ps, c) == a.data[OffsetOf(c, ps, 1, 0) + 1]

RECURSIVE MapLoop(_, _, _, _, _, _, _)
MapLoop(fn, arrs, padded, shape, c, left, acc) ==
    IF left = 0 THEN acc
    ELSE MapLoop(fn, arrs, padded, shape, NextCoord(c, shape, Len(shape)), left - 1,
                 Append(acc, Apply(fn, [i \in 1..Len(arrs) |-> Select(arrs[i], padded[i], c)])))

arraymap(fn, a, otypes) ==
    LET arrs   == [i \in 1..Len(a) |-> asarray(a[i])]
        r      == MaxRank([i \in 1..Len(a) |-> arrs[i].shape], 1)
        padded == [i \in 1..Len(a) |-> Pad(arrs[i].shape, r)]
    IN  IF ~Compatible(padded, r)
        THEN Raise("BroadcastError", "shapes cannot be broadcast")
        ELSE LET shape == BroadcastShape(padded, r)
                 count == Product(shape, 1)
                 data  == MapLoop(fn, arrs, padded, shape, [d \in 1..r |-> 0], count, <<>>)
             IN  [exc |-> "none", msg |-> "", calls |-> <<>>, warned |-> FALSE,
                  value |-> [NoValue EXCEPT !.kind = "array", !.shape = shape, !.data = data,
                                 !.typecode = IF otypes # "" THEN otypes
                                              ELSE IF count > 0 THEN "l" ELSE ""]]

\* squeeze: the dimensions of size 1 removed; an array left with no dimension
\* is returned as its single element
NotOne(n) == n # 1
squeeze(r) ==
    IF r.exc # "none" THEN r
    ELSE LET sh == SelectSeq(r.value.shape, NotOne) IN
         [r EXCEPT !.value.shape = sh,
                   !.value.kind = IF sh = <<>> THEN "scalar" ELSE "array"]

\* __call__ without squeeze
call_nosqueeze(self, a) == arraymap(self.thefunc, a, self.otypes)

\* __call__ pairing the elements as Python's map does, up to the shorter argument
call_map(self, a) ==
    LET x == Flatten(a[1])
        y == Flatten(a[2])
        n == IF Len(x) <= Len(y) THEN Len(x) ELSE Len(y)
    IN  [exc |-> "none", msg |-> "", calls |-> <<>>, warned |-> FALSE,
         value |-> [NoValue EXCEPT !.kind = "array", !.shape = <<n>>,
                        !.data = [i \in 1..n |-> Apply(self.thefunc, <<x[i], y[i]>>)]]]

\* general_function.__call__
call(self, a) == squeeze(arraymap(self.thefunc, a, self.otypes))

-----------------------------------------------------------------------------
(* The inputs the model calls the program with.                            *)

NtInputs ==
    {I(-1), I(0), I(1), I(3), I(NtMax), I(NtMax + 1),
     Fl(2), Fl(3), Fl(-3), Fl(2 * NtMax + 1),
     Arr(<<2, 4>>), Arr(<<3>>), Arr(<<-2, 2>>)}
OrderInputs == {I(0), I(1), Fl(1), Arr(<<0>>)}
ComplexFlags == {I(0), I(1)}
DegreeInputs == {I(-1), I(0), I(2), Fl(4), Fl(3), Fl(5), Arr(<<2>>)}
ZInputs == {Fl(1), Cx(1), Arr(<<1, 2>>)}
ModeInputs == {I(0), I(1), I(3), I(DiffMax + 1), Fl(1), Fl(3), Arr(<<2>>)}
CInputs == {Fl(1), Arr(<<1>>)}
MathieuM ==
    {I(-1), I(0), I(1), I(2), Fl(3), Fl(4), Arr(<<2>>)}
        \cup {I(m) : m \in (2 * KmMax - 15)..(2 * KmMax - 12)}
MathieuQ == {I(-1), I(0), I(1), I(4), I(3600), Arr(<<0>>)}
DerivV == {I(v) : v \in (0 - MaxV)..MaxV} \cup {Fl(1)}
DerivZ == {Fl(3)}
DerivN == {I(n) : n \in -1..MaxN} \cup {Lg(2), Fl(2), Fl(4), Fl(3), Arr(<<2>>)}

PyFuncs ==
    {Function("myfunc", None), Function("sub", Str("a - b")), _sph_harmonic,
     ClassObj("SomeClass", Str("a class")), TypeObj("NewStyle", None),
     Instance("functor", None),
     NotCallable("five")}
OtypesInputs == {None, Str(""), Str("D"), PyInt("5")}
DocInputs == {None, Str("doc")}

ArrayInputs ==
    {Sc(2), Sc(5),
     Sq(<<Sc(1), Sc(2), Sc(3), Sc(4)>>),
     Sq(<<Sq(<<Sc(1), Sc(2), Sc(3), Sc(4)>>)>>),
     Sq(<<Sc(1), Sc(2), Sc(3)>>),
     Sq(<<Sq(<<Sc(10)>>), Sq(<<Sc(20)>>)>>),
     Sq(<<Sq(<<Sc(1), Sc(2)>>), Sq(<<Sc(3), Sc(4)>>)>>),
     Sq(<<Sc(7)>>),
     Sq(<<Sq(<<Sc(3)>>)>>),
     Sq(<<>>)}

-----------------------------------------------------------------------------
(* The state machine: one step is one call.                                *)

Init ==
    /\ op = "none"
    /\ args = <<>>
    /\ exc = "none"
    /\ msg = ""
    /\ calls = <<>>
    /\ warned = FALSE
    /\ value = NoValue
    /\ gfunc = sph_harm

\* record a call: its name, its arguments and its outcome
Do(name, a, r) ==
    /\ op' = name
    /\ args' = a
    /\ exc' = r.exc
    /\ msg' = r.msg
    /\ calls' = r.calls
    /\ warned' = r.warned
    /\ value' = r.value

\* gfunc = general_function(pyfunc, otypes, doc): a raise leaves gfunc bound
\* to the instance it had
Construct ==
    \E f \in PyFuncs, t \in OtypesInputs, d \in DocInputs :
        LET r == general_function(f, t, d) IN
        /\ op' = "general_function"
        /\ args' = <<f, t, d>>
        /\ exc' = r.exc
        /\ msg' = r.msg
        /\ calls' = <<>>
        /\ warned' = FALSE
        /\ value' = NoValue
        /\ gfunc' = IF r.exc = "none" THEN r ELSE gfunc

\* a __call__ that stores the output type it inferred in the instance
Call_storing ==
    /\ gfunc.thefunc \in {"myfunc", "sub"}
    /\ \E a \in ArrayInputs, b \in ArrayInputs :
           LET r == call(gfunc, <<a, b>>) IN
           /\ Do("__call__", <<a, b>>, r)
           /\ gfunc' = IF r.exc = "none" /\ gfunc.otypes = ""
                       THEN [gfunc EXCEPT !.otypes = r.value.typecode]
                       ELSE gfunc

\* gfunc(a, b), for the instances whose function the model can evaluate
Call ==
    /\ gfunc.thefunc \in {"myfunc", "sub"}
    /\ \E a \in ArrayInputs, b \in ArrayInputs :
           Do("__call__", <<a, b>>, call(gfunc, <<a, b>>)) /\ UNCHANGED gfunc

Zeros1 ==
    \E nt \in NtInputs :
        \/ Do("jnjnp_zeros", <<nt>>, jnjnp_zeros(nt)) /\ UNCHANGED gfunc
        \/ Do("erf_zeros", <<nt>>, erf_zeros(nt)) /\ UNCHANGED gfunc
        \/ Do("fresnelc_zeros", <<nt>>, fresnelc_zeros(nt)) /\ UNCHANGED gfunc
        \/ Do("fresnels_zeros", <<nt>>, fresnels_zeros(nt)) /\ UNCHANGED gfunc
        \/ Do("fresnel_zeros", <<nt>>, fresnel_zeros(nt)) /\ UNCHANGED gfunc
        \/ Do("ai_zeros", <<nt>>, ai_zeros(nt)) /\ UNCHANGED gfunc
        \/ Do("bi_zeros", <<nt>>, bi_zeros(nt)) /\ UNCHANGED gfunc
        \/ Do("ber_zeros", <<nt>>, ber_zeros(nt)) /\ UNCHANGED gfunc
        \/ Do("bei_zeros", <<nt>>, bei_zeros(nt)) /\ UNCHANGED gfunc
        \/ Do("ker_zeros", <<nt>>, ker_zeros(nt)) /\ UNCHANGED gfunc
        \/ Do("kei_zeros", <<nt>>, kei_zeros(nt)) /\ UNCHANGED gfunc
        \/ Do("berp_zeros", <<nt>>, berp_zeros(nt)) /\ UNCHANGED gfunc
        \/ Do("beip_zeros", <<nt>>, beip_zeros(nt)) /\ UNCHANGED gfunc
        \/ Do("kerp_zeros", <<nt>>, kerp_zeros(nt)) /\ UNCHANGED gfunc
        \/ Do("keip_zeros", <<nt>>, keip_zeros(nt)) /\ UNCHANGED gfunc
        \/ Do("kelvin_zeros", <<nt>>, kelvin_zeros(nt)) /\ UNCHANGED gfunc

Zeros2 ==
    \E n \in OrderInputs, nt \in NtInputs :
        \/ Do("jnyn_zeros", <<n, nt>>, jnyn_zeros(n, nt)) /\ UNCHANGED gfunc
        \/ Do("jn_zeros", <<n, nt>>, jn_zeros(n, nt)) /\ UNCHANGED gfunc
        \/ Do("jnp_zeros", <<n, nt>>, jnp_zeros(n, nt)) /\ UNCHANGED gfunc
        \/ Do("yn_zeros", <<n, nt>>, yn_zeros(n, nt)) /\ UNCHANGED gfunc
        \/ Do("ynp_zeros", <<n, nt>>, ynp_zeros(n, nt)) /\ UNCHANGED gfunc

ZerosY ==
    \E nt \in NtInputs, c \in ComplexFlags :
        \/ Do("y0_zeros", <<nt, c>>, y0_zeros(nt, c)) /\ UNCHANGED gfunc
        \/ Do("y1_zeros", <<nt, c>>, y1_zeros(nt, c)) /\ UNCHANGED gfunc
        \/ Do("y1p_zeros", <<nt, c>>, y1p_zeros(nt, c)) /\ UNCHANGED gfunc

Legendre ==
    \E m \in DegreeInputs, n \in DegreeInputs, z \in ZInputs :
        \/ Do("lpmn", <<m, n, z>>, lpmn(m, n, z)) /\ UNCHANGED gfunc
        \/ Do("lqmn", <<m, n, z>>, lqmn(m, n, z)) /\ UNCHANGED gfunc
        \/ Do("lpn", <<n, z>>, lpn(n, z)) /\ UNCHANGED gfunc
        \/ Do("lqn", <<n, z>>, lqn(n, z)) /\ UNCHANGED gfunc
        \/ Do("bernoulli", <<n>>, bernoulli(n)) /\ UNCHANGED gfunc
        \/ Do("euler", <<n>>, euler(n)) /\ UNCHANGED gfunc

Spheroidal ==
    \E m \in ModeInputs, n \in ModeInputs, c \in CInputs :
        \/ Do("pro_cv_seq", <<m, n, c>>, pro_cv_seq(m, n, c)) /\ UNCHANGED gfunc
        \/ Do("obl_cv_seq", <<m, n, c>>, obl_cv_seq(m, n, c)) /\ UNCHANGED gfunc

Mathieu ==
    \E m \in MathieuM, q \in MathieuQ :
        \/ Do("mathieu_even_coef", <<m, q>>, mathieu_even_coef(m, q)) /\ UNCHANGED gfunc
        \/ Do("mathieu_odd_coef", <<m, q>>, mathieu_odd_coef(m, q)) /\ UNCHANGED gfunc

Derivative ==
    \E v \in DerivV, z \in DerivZ, n \in DerivN :
        \/ Do("jvp", <<v, z, n>>, jvp(v, z, n)) /\ UNCHANGED gfunc
        \/ Do("yvp", <<v, z, n>>, yvp(v, z, n)) /\ UNCHANGED gfunc
        \/ Do("kvp", <<v, z, n>>, kvp(v, z, n)) /\ UNCHANGED gfunc
        \/ Do("ivp", <<v, z, n>>, ivp(v, z, n)) /\ UNCHANGED gfunc
        \/ Do("h1vp", <<v, z, n>>, h1vp(v, z, n)) /\ UNCHANGED gfunc
        \/ Do("h2vp", <<v, z, n>>, h2vp(v, z, n)) /\ UNCHANGED gfunc

AdapterNext ==
    \/ Construct
    \/ Call

CatalogNext ==
    \/ Zeros1
    \/ Zeros2
    \/ ZerosY
    \/ Legendre
    \/ Spheroidal
    \/ Mathieu
    \/ Derivative

Next == AdapterNext \/ CatalogNext

\* the whole module, and its two independent halves: the catalog functions
\* neither read nor write a general_function instance
Spec == Init /\ [][Next]_vars
AdapterSpec == Init /\ [][AdapterNext]_vars
CatalogSpec == Init /\ [][CatalogNext]_vars

-----------------------------------------------------------------------------
(* Properties of the general_function adapter.                             *)

\* what the two sample functions compute, written out
Expected(fn, a, b) ==
    IF fn = "myfunc" THEN (IF a > b THEN a - b ELSE a + b) ELSE a - b

\* the broadcast of two shapes, dimension by dimension from the right
Dim(sh, r, d) == IF d <= r - Len(sh) THEN 1 ELSE sh[d - (r - Len(sh))]
Rank2(sa, sb) == Max(Len(sa), Len(sb))
Clash(sa, sb) ==
    \E d \in 1..Rank2(sa, sb) :
        LET x == Dim(sa, Rank2(sa, sb), d)
            y == Dim(sb, Rank2(sa, sb), d)
        IN  x # y /\ x # 1 /\ y # 1
Broadcast2(sa, sb) ==
    [d \in 1..Rank2(sa, sb) |->
        LET x == Dim(sa, Rank2(sa, sb), d)
            y == Dim(sb, Rank2(sa, sb), d)
        IN  IF x = 1 THEN y ELSE x]

\* the coordinates of a shape, and the row-major position of one of them
Coords(sh) == {c \in [1..Len(sh) -> 0..(MaxDim - 1)] : \A d \in 1..Len(sh) : c[d] < sh[d]}
RECURSIVE Position(_, _, _)
Position(c, sh, d) ==
    IF d > Len(sh) THEN 0
    ELSE c[d] * Product(sh, d + 1) + Position(c, sh, d + 1)

\* the element of argument x that coordinate c of the broadcast shape selects
Stretched(x, r, c) ==
    LET sh  == ShapeOf(x)
        own == [j \in 1..Len(sh) |-> IF sh[j] = 1 THEN 0 ELSE c[j + (r - Len(sh))]]
    IN  Flatten(x)[Position(own, sh, 1) + 1]

WasCalled == op = "__call__"
ShapeA == ShapeOf(args[1])
ShapeB == ShapeOf(args[2])
BShape == Broadcast2(ShapeA, ShapeB)
Example1234 == Sq(<<Sc(1), Sc(2), Sc(3), Sc(4)>>)
Row1234 == Sq(<<Example1234>>)

\* C1: when the shapes of the arguments are broadcast-compatible, the element
\* of the result at every coordinate of the broadcast shape, taken in row-major
\* order, is Fn applied to the elements the coordinate selects from each argument
\* (index 0 where the argument has size 1); myfunc over ([1,2,3,4], 2) gives
\* [3,4,1,2].
C1_Elementwise ==
    (WasCalled /\ ~Clash(ShapeA, ShapeB)) =>
        /\ exc = "none"
        /\ Len(value.data) = Product(BShape, 1)
        /\ \A c \in Coords(BShape) :
               value.data[Position(c, BShape, 1) + 1] =
                   Expected(gfunc.thefunc, Stretched(args[1], Len(BShape), c),
                                           Stretched(args[2], Len(BShape), c))
        /\ (gfunc.thefunc = "myfunc" /\ args = <<Example1234, Sc(2)>>) =>
               (value.kind = "array" /\ value.data = <<3, 4, 1, 2>>)

C1_Witness ==
    /\ WasCalled
    /\ gfunc.thefunc = "myfunc"
    /\ args = <<Example1234, Sc(2)>>
    /\ value.data = <<3, 4, 1, 2>>

\* C2: called with two scalars a and b, the adapter returns the single scalar
\* Fn(a, b), not an array of rank 0 or of length 1.
C2_ScalarInScalarOut ==
    (WasCalled /\ args[1].tag = "scalar" /\ args[2].tag = "scalar") =>
        /\ exc = "none"
        /\ value.kind = "scalar"
        /\ value.shape = <<>>
        /\ value.data = <<Expected(gfunc.thefunc, args[1].val, args[2].val)>>

C2_Witness ==
    /\ WasCalled
    /\ gfunc.thefunc = "myfunc"
    /\ args = <<Sc(5), Sc(2)>>
    /\ value.kind = "scalar"
    /\ value.data = <<3>>

\* C3 as stated: whenever the broadcast shape is not of rank 0, the result is an
\* array of exactly the broadcast shape, dimensions of size 1 included.
C3_ExactBroadcastShape ==
    (WasCalled /\ exc = "none" /\ BShape # <<>>) =>
        (value.kind = "array" /\ value.shape = BShape)

\* C3 amended: whenever the broadcast shape is not of rank 0, the result has the
\* broadcast shape with every dimension of size 1 removed, and is a single scalar
\* when no dimension is left.
C3_SqueezedBroadcastShape ==
    (WasCalled /\ exc = "none" /\ BShape # <<>>) =>
        /\ value.shape = SelectSeq(BShape, NotOne)
        /\ value.kind = IF \A d \in 1..Len(BShape) : BShape[d] = 1
                        THEN "scalar" ELSE "array"

C3_Witness ==
    /\ WasCalled
    /\ args = <<Row1234, Sc(2)>>
    /\ BShape = <<1, 4>>
    /\ value.kind = "array"
    /\ value.shape = <<4>>

\* C4: called with shapes that are not broadcast-compatible (some pair of
\* dimensions neither equal nor 1), the adapter ends in BroadcastError and returns
\* nothing.
C4_IncompatibleShapesRaise ==
    (WasCalled /\ Clash(ShapeA, ShapeB)) =>
        (exc = "BroadcastError" /\ value = NoValue)

C4_Witness ==
    /\ WasCalled
    /\ ShapeA = <<3>>
    /\ ShapeB = <<4>>
    /\ exc = "BroadcastError"

WasConstructed == op = "general_function"
BadTag(t) == t # None /\ t.ty # "str"

\* ConfigurationError, taken as the kind raised for an object that is not callable
ConfigurationError == "TypeError"

\* C5 as stated: construction fails with the one kind ConfigurationError when the
\* object is not callable or the tag is given and is not a string, and succeeds
\* for every callable object with no tag or a string tag.
C5_OneErrorKind ==
    WasConstructed =>
        IF ~callable(args[1]) \/ BadTag(args[2])
        THEN exc = ConfigurationError
        ELSE exc = "none"

\* C5 amended: construction raises TypeError when the object is not callable or
\* is a class object of type ClassType; otherwise it raises ValueError when the tag is given and is
\* not a string; otherwise it succeeds, and the instance holds the function, the
\* tag ('' when absent) and the documentation (the function's own when absent).
C5_TwoErrorKinds ==
    WasConstructed =>
        IF ~callable(args[1]) \/ args[1].ty = "classobj"
        THEN exc = "TypeError"
        ELSE IF BadTag(args[2])
        THEN exc = "ValueError"
        ELSE /\ exc = "none"
             /\ gfunc.thefunc = args[1].name
             /\ gfunc.otypes = (IF args[2] = None THEN "" ELSE args[2].str)
             /\ gfunc.doc = (IF args[3] = None THEN args[1].doc ELSE args[3])

C5_Witness ==
    /\ WasConstructed
    /\ args[1].ty = "classobj"
    /\ ~BadTag(args[2])
    /\ exc = "TypeError"

-----------------------------------------------------------------------------
(* Properties of the catalog.                                              *)

\* C6: jnjnp_zeros(1400) passes validation, reaches the zero-finding routine and
\* returns its four arrays without raising; jnjnp_zeros(1401) raises the domain
\* error.
C6_BoundaryAccepted ==
    /\ (op = "jnjnp_zeros" /\ args = <<I(NtMax)>>) =>
           /\ exc = "none"
           /\ Len(calls) = 1
           /\ calls[1].routine = "jdzo"
           /\ Len(value.parts) = 4
    /\ (op = "jnjnp_zeros" /\ args = <<I(NtMax + 1)>>) => exc = "ValueError"

ZerosOfNt ==
    {"jnjnp_zeros", "erf_zeros", "fresnelc_zeros", "fresnels_zeros", "fresnel_zeros",
     "ai_zeros", "bi_zeros", "ber_zeros", "bei_zeros", "ker_zeros", "kei_zeros",
     "berp_zeros", "beip_zeros", "kerp_zeros", "keip_zeros", "kelvin_zeros",
     "y0_zeros", "y1_zeros", "y1p_zeros"}
ZerosOfOrderNt == {"jnyn_zeros", "jn_zeros", "jnp_zeros", "yn_zeros", "ynp_zeros"}
NtArg == IF op \in ZerosOfOrderNt THEN args[2] ELSE args[1]

\* nt is not a scalar, or is not integer-valued, or is outside the declared range
NtRejected ==
    \/ NtArg.tag = "array"
    \/ NtArg.h % 2 # 0
    \/ IF op = "jnjnp_zeros" THEN NtArg.h > 2 * NtMax ELSE NtArg.h <= 0

\* C7: every _zeros function raises the domain error, before reaching any
\* routine, for every nt that is not a scalar, or not integer-valued, or outside
\* its range (nt <= 0; nt > 1400 for jnjnp_zeros).
C7_ZerosRejectBadNt ==
    (op \in ZerosOfNt \cup ZerosOfOrderNt /\ NtRejected) =>
        (exc = "ValueError" /\ calls = <<>> /\ value = NoValue)

C7_Witness ==
    /\ op = "erf_zeros"
    /\ args = <<Arr(<<2, 4>>)>>
    /\ exc = "ValueError"

\* a non-negative integer scalar, as the error messages of lpmn, lqmn, bernoulli
\* and euler name it
NonNegInt(x) == x.tag # "array" /\ x.h % 2 = 0 /\ x.h >= 0

\* the preconditions the wrappers declare
Declared ==
    CASE op \in {"lpmn", "lqmn"} ->
            NonNegInt(args[1]) /\ NonNegInt(args[2]) /\ args[3].tag # "array"
      [] op \in {"bernoulli", "euler"} -> NonNegInt(args[1])
      [] op \in {"lpn", "lqn"} -> NonNegInt(args[1]) /\ args[2].tag # "array"
      [] op \in {"pro_cv_seq", "obl_cv_seq"} ->
            /\ \A i \in 1..3 : args[i].tag # "array"
            /\ args[1].h % 2 = 0 /\ args[2].h % 2 = 0
            /\ args[2].h - args[1].h <= 2 * DiffMax
            /\ args[2].h >= args[1].h
      [] OTHER -> TRUE

\* C8: a call that violates a precondition its wrapper declares raises the domain
\* error before any external routine is reached.
C8_ValidatedBeforeDelegating ==
    ~Declared => (exc = "ValueError" /\ calls = <<>>)

DerivativeWrappers == {"jvp", "yvp", "kvp", "ivp", "h1vp", "h2vp"}
BaseOf ==
    [f \in DerivativeWrappers |->
        CASE f = "jvp" -> "jv" [] f = "yvp" -> "yv" [] f = "kvp" -> "kv"
          [] f = "ivp" -> "iv" [] f = "h1vp" -> "hankel1" [] OTHER -> "hankel2"]
Unit(k, at) == IF k = at THEN 1 ELSE 0

\* C9: with n = 0 a derivative wrapper returns F_v(z) from one evaluation of its
\* base function and no recursive call; with n = 2 it returns
\* ((F_{v-2}(z) - F_v(z))/2 - (F_v(z) - F_{v+2}(z))/2)/2.
C9_DerivativeOrders0And2 ==
    /\ (op \in DerivativeWrappers /\ args[3] = I(0)) =>
           /\ exc = "none"
           /\ calls = <<Ext("cephes", BaseOf[op], <<args[1], args[2]>>)>>
           /\ value.ninv = 1
           /\ value.exp2 = 0
           /\ \A k \in Orders : value.coef[k] = Unit(k, args[1].h)
    /\ (op \in DerivativeWrappers /\ args[3] = I(2)) =>
           /\ exc = "none"
           /\ Len(calls) = 4
           /\ [i \in 1..4 |-> calls[i].args[1].h - args[1].h] = <<-4, 0, 0, 4>>
           /\ \A i \in 1..4 : calls[i].routine = BaseOf[op]
           /\ value.exp2 = 2
           /\ \A k \in Orders :
                  value.coef[k] =
                      (Unit(k, args[1].h - 4) - Unit(k, args[1].h))
                          - (Unit(k, args[1].h) - Unit(k, args[1].h + 4))

C9_Witness ==
    /\ op = "h1vp"
    /\ args[3] = I(2)
    /\ exc = "none"
    /\ value.exp2 = 2
    /\ value.ninv = 7

\* a valid call of mathieu_even_coef or mathieu_odd_coef
MathieuValid ==
    /\ op \in {"mathieu_even_coef", "mathieu_odd_coef"}
    /\ args[1].tag # "array" /\ args[2].tag # "array"
    /\ args[2].h >= 0
    /\ args[1].h % 2 = 0
    /\ IF op = "mathieu_even_coef" THEN args[1].h >= 0 ELSE args[1].h > 0

\* C10: a valid call of mathieu_even_coef or mathieu_odd_coef raises nothing,
\* reaches the coefficient routine and returns its first km coefficients, with
\* the warning exactly when km exceeds 251.
C10_MathieuCompletes ==
    MathieuValid =>
        /\ exc = "none"
        /\ Len(calls) = 2
        /\ calls[2].routine = "fcoef"
        /\ value.sliced
        /\ value.take = Km(args[1], args[2])
        /\ warned = (value.take > KmMax)

-----------------------------------------------------------------------------
(* The order of the validation checks.                                     *)

\* the checks of the wrapper called last, in the order the wrapper is declared
\* to make them: whether the call's arguments fail the check, and the message
\* of the error the check raises
CheckList ==
    CASE op \in ZerosOfOrderNt ->
            << <<~(isscalar(args[1]) /\ isscalar(args[2])), "Arguments must be scalars.">>,
               <<FloorNe(args[1]) \/ FloorNe(args[2]), "Arguments must be integers.">>,
               <<Le0(args[2]), "nt > 0">> >>
      [] op = "mathieu_even_coef" ->
            << <<~(isscalar(args[1]) /\ isscalar(args[2])), "m and q must be scalars.">>,
               <<Lt0(args[2]), "q >=0">>,
               <<FloorNe(args[1]) \/ Lt0(args[1]), "m must be an integer >=0.">> >>
      [] op = "mathieu_odd_coef" ->
            << <<~(isscalar(args[1]) /\ isscalar(args[2])), "m and q must be scalars.">>,
               <<Lt0(args[2]), "q >=0">>,
               <<FloorNe(args[1]) \/ Le0(args[1]), "m must be an integer > 0">> >>
      [] op \in {"pro_cv_seq", "obl_cv_seq"} ->
            << <<\E i \in 1..3 : ~isscalar(args[i]), "Arguments must be scalars.">>,
               <<FloorNe(args[2]) \/ FloorNe(args[1]), "Modes must be integers.">>,
               <<args[2].h - args[1].h > 2 * DiffMax,
                 "Difference between n and m is too large.">> >>
      [] OTHER -> <<>>

FailingChecks == {i \in 1..Len(CheckList) : CheckList[i][1]}
FirstFailing == CHOOSE i \in FailingChecks : \A j \in FailingChecks : i <= j

\* C11: when the arguments of jnyn_zeros (or of a wrapper built on it), of
\* mathieu_even_coef, mathieu_odd_coef, pro_cv_seq or obl_cv_seq fail more than
\* one of the wrapper's checks, the call raises the domain error of the first
\* failing check in the wrapper's order, and nothing that follows that check is
\* executed: no warning is printed and no external routine is reached.
C11_FirstFailingCheckWins ==
    Cardinality(FailingChecks) > 1 =>
        /\ exc = "ValueError"
        /\ msg = CheckList[FirstFailing][2]
        /\ calls = <<>>
        /\ ~warned
        /\ value = NoValue

\* jnyn_zeros(0, -1.5): not an integer and not positive
C11_Witness ==
    /\ op = "jnyn_zeros"
    /\ args = <<I(0), Fl(-3)>>
    /\ Cardinality(FailingChecks) = 2
    /\ msg = "Arguments must be integers."

-----------------------------------------------------------------------------
(* The cost of the derivative recurrence.                                  *)

\* the call of a derivative wrapper returned the n-th derivative at the full
\* cost of the recurrence: depth n, 2^n evaluations of the base function at z
\* and at orders within v-n..v+n, and 2^(n+1)-1 invocations, each of which
\* validated its n without raising
FullCost(n) ==
    /\ exc = "none"
    /\ value.depth = n
    /\ value.ninv = 2 * Pow2(n) - 1
    /\ Len(calls) = Pow2(n)
    /\ \A i \in 1..Len(calls) :
           /\ calls[i].module = "cephes"
           /\ calls[i].routine = BaseOf[op]
           /\ calls[i].args[2] = args[2]
           /\ calls[i].args[1].h - args[1].h \in (0 - 2 * n)..(2 * n)

\* the call raised the domain error without evaluating the base function
RejectedUnevaluated ==
    exc = "ValueError" /\ calls = <<>> /\ value = NoValue

-----------------------------------------------------------------------------
(* The state of a general_function instance.                               *)

\* C13: a call of a constructed general_function instance, whether it returns
\* or raises, leaves the instance's function, type tag and documentation as
\* construction set them, and writes no other state of the instance: the output
\* type inferred for a call is part of the result and is never stored, so it is
\* written in the instance at most once (never).  The instance bound to gfunc
\* changes only when a construction succeeds.
C13_CallsLeaveInstanceUnchanged ==
    [][/\ (op' = "__call__") =>
             /\ gfunc'.thefunc = gfunc.thefunc
             /\ gfunc'.otypes = gfunc.otypes
             /\ gfunc'.doc = gfunc.doc
             /\ gfunc' = gfunc
       /\ (gfunc' # gfunc) => (op' = "general_function" /\ exc' = "none")]_vars

\* a call of an instance constructed without a type tag has inferred the type
\* of its result, and the instance's tag is still empty
C13_Witness ==
    /\ op = "__call__"
    /\ exc = "none"
    /\ value.typecode = "l"
    /\ gfunc.thefunc = "myfunc"
    /\ gfunc.otypes = ""
    /\ gfunc.doc = None

=============================================================================
